---- MODULE Spec2Model ----
(***************************************************************************)
(* holo.c: a rotating 14-segment text renderer for the terminal.           *)
(*                                                                         *)
(* The model follows src/holo.c: the two signal handlers, the main render  *)
(* loop (text refresh, resize handling with realloc, zoom, clear, the      *)
(* character / segment loops, flush, angle update, cleanup) and the three  *)
(* rendering functions project_and_draw, draw_rotated_point and            *)
(* draw_pointy_segment.                                                    *)
(*                                                                         *)
(* Numbers.  The program computes in float; the model computes in exact    *)
(* rationals <<n, d>> (d > 0, lowest terms), and the configurations it     *)
(* runs are chosen so that every sqrtf, cosf and sinf the code evaluates   *)
(* has a rational value (3-4-5 triangles, quarter turns).  Float rounding  *)
(* is therefore not modelled.  Characters are their byte codes.            *)
(***************************************************************************)
EXTENDS Integers, Sequences, FiniteSets, TLC

(***************************************************************************)
(* Program constants (#define lines of holo.c)                             *)
(***************************************************************************)
NUM_SEGMENTS == 14
ASCII_OFFSET == 32
SUPPORTED_CHARS == 96
CAMERA_DISTANCE == 25
SizeofFloat == 4
SPACE == 32
NULL == 0

(***************************************************************************)
(* Bounds of the model                                                     *)
(***************************************************************************)
MaxCols == 2
MaxRows == 2
NumAddr == 4
MaxTextLen == 1
MaxOpts == 2

(***************************************************************************)
(* Exact rational arithmetic, standing for the float arithmetic            *)
(***************************************************************************)
Abs(n) == IF n < 0 THEN -n ELSE n

RECURSIVE GCD(_, _)
GCD(a, b) == IF b = 0 THEN a ELSE GCD(b, a % b)

Rat(n, d) ==
    LET s == IF d < 0 THEN -1 ELSE 1
        g == GCD(Abs(n), Abs(d))
    IN  <<(s * n) \div g, (s * d) \div g>>

I2R(n) == <<n, 1>>
Zero == <<0, 1>>
RAdd(a, b) == Rat(a[1] * b[2] + b[1] * a[2], a[2] * b[2])
RSub(a, b) == Rat(a[1] * b[2] - b[1] * a[2], a[2] * b[2])
RMul(a, b) == Rat(a[1] * b[1], a[2] * b[2])
RDiv(a, b) == Rat(a[1] * b[2], a[2] * b[1])
RNeg(a) == <<-a[1], a[2]>>
RLe(a, b) == a[1] * b[2] <= b[1] * a[2]
RLt(a, b) == a[1] * b[2] < b[1] * a[2]
RMin(a, b) == IF RLt(b, a) THEN b ELSE a

\* (int) f : C's float-to-int conversion truncates toward zero
Trunc(a) == IF a[1] >= 0 THEN a[1] \div a[2] ELSE -((-a[1]) \div a[2])

\* sqrtf on the values the modelled configurations produce (perfect squares)
ISqrt(k) == CHOOSE s \in 0..k : s * s = k
RSqrt(a) == <<ISqrt(a[1]), ISqrt(a[2])>>

(***************************************************************************)
(* Memory access.  An index outside the object is undefined behaviour in   *)
(* C: such a read yields the arbitrary value junk, such a write lands      *)
(* outside the buffer.  The model records every index used.                *)
(***************************************************************************)
Load(buf, i, junk) == IF i \in DOMAIN buf THEN buf[i] ELSE junk
Store(buf, i, v) == IF i \in DOMAIN buf THEN [buf EXCEPT ![i] = v] ELSE buf

\* palette[i] of a NUL-terminated string: palette[strlen] is the terminator
PaletteAt(palette, i, junk) ==
    IF i >= 0 /\ i < Len(palette) THEN palette[i + 1]
    ELSE IF i = Len(palette) THEN 0
    ELSE junk

(***************************************************************************)
(* project_and_draw (holo.c 158-199)                                       *)
(***************************************************************************)
\* line 172: points behind the camera are not rendered
BehindCamera(final_z) == RLe(final_z, Zero)

\* a bounds test that lets the column sw through
OffScreenPast(xp, yp, sw, sh) == xp < 0 \/ xp > sw \/ yp < 0 \/ yp >= sh

\* line 182, the bounds part of the test
OffScreen(xp, yp, sw, sh) == xp < 0 \/ xp >= sw \/ yp < 0 \/ yp >= sh

\* a depth test that takes the smaller value for the nearer one
OccludedFar(ooz, stored) == stored # Zero /\ RLe(stored, ooz)

\* line 182, the Z-buffer part of the test
Occluded(ooz, stored) == RLe(ooz, stored)

\* line 197: the clamp.  palette_idx is int, palette_len is size_t: with
\* palette_len = 0 the upper arm yields (int)(size_t)-1 = -1.
ClampPaletteIdx(palette_idx, palette_len) ==
    IF palette_idx < 0 THEN 0
    ELSE IF palette_idx >= palette_len THEN palette_len - 1
    ELSE palette_idx

\* lines 161-169: shear, yaw, pitch, translate.  pt = [x, y, z, nx, ny, nz]
Transform(pt, ctx) ==
    LET x == RAdd(pt.x, RMul(pt.y, ctx.tilt_factor))
        rot_x == RSub(RMul(x, ctx.cosB), RMul(pt.z, ctx.sinB))
        rot_z == RAdd(RMul(x, ctx.sinB), RMul(pt.z, ctx.cosB))
        final_y == RSub(RMul(pt.y, ctx.cosA), RMul(rot_z, ctx.sinA))
        final_z == RAdd(RAdd(RMul(pt.y, ctx.sinA), RMul(rot_z, ctx.cosA)),
                        I2R(CAMERA_DISTANCE))
    IN  [rot_x |-> rot_x, final_y |-> final_y, final_z |-> final_z]

\* lines 186-192: the luminance of the rotated normal
Luminance(pt, ctx) ==
    LET n_rot_x == RSub(RMul(pt.nx, ctx.cosB), RMul(pt.nz, ctx.sinB))
        n_rot_z == RAdd(RMul(pt.nx, ctx.sinB), RMul(pt.nz, ctx.cosB))
        n_final_y == RSub(RMul(pt.ny, ctx.cosA), RMul(n_rot_z, ctx.sinA))
    IN  RAdd(RMul(n_final_y, ctx.light_y), RMul(n_rot_x, ctx.light_x))

\* lines 196-197: the palette index of a point
PaletteIdx(pt, ctx) ==
    ClampPaletteIdx(Trunc(RMul(Luminance(pt, ctx), ctx.contrast)), ctx.palette_len)

\* the result of a call that returns early, having read the cells in reads
NoDraw(ctx, final_z, reads) ==
    [zbuffer |-> ctx.zbuffer, bbuffer |-> ctx.bbuffer, final_z |-> final_z,
     reads |-> reads, writes |-> {}, palette_reads |-> {}, cell |-> <<>>]

\* lines 175-198, for a point with camera-space depth final_z > 0
Rasterize(pt, ctx, t, final_z, junk) ==
    LET ooz == RDiv(I2R(1), final_z)
        xp == Trunc(RAdd(Rat(ctx.sw, 2),
                         RMul(RMul(RMul(ctx.zoom, I2R(2)), t.rot_x), ooz)))
        yp == Trunc(RSub(Rat(ctx.sh, 2),
                         RMul(RMul(ctx.zoom, t.final_y), ooz)))
        buffer_idx == xp + ctx.sw * yp
    IN  IF OffScreen(xp, yp, ctx.sw, ctx.sh)
        THEN NoDraw(ctx, t.final_z, {})
        ELSE IF Occluded(ooz, Load(ctx.zbuffer, buffer_idx, I2R(junk)))
        THEN [NoDraw(ctx, t.final_z, {buffer_idx}) EXCEPT !.cell = <<xp, yp>>]
        ELSE
            LET palette_idx == PaletteIdx(pt, ctx)
            IN  [zbuffer |-> Store(ctx.zbuffer, buffer_idx, ooz),
                 bbuffer |-> Store(ctx.bbuffer, buffer_idx,
                                   PaletteAt(ctx.palette, palette_idx, junk)),
                 final_z |-> t.final_z,
                 reads |-> {buffer_idx},
                 writes |-> {buffer_idx},
                 palette_reads |-> {palette_idx},
                 cell |-> <<xp, yp>>]

\* a projection that clamps a point behind the camera to the near plane
project_and_draw_clamped(pt, ctx, junk) ==
    LET t == Transform(pt, ctx)
    IN  IF BehindCamera(t.final_z)
        THEN Rasterize(pt, ctx, t, I2R(1), junk)
        ELSE Rasterize(pt, ctx, t, t.final_z, junk)

project_and_draw(pt, ctx, junk) ==
    LET t == Transform(pt, ctx)
    IN  IF BehindCamera(t.final_z)
        THEN NoDraw(ctx, t.final_z, {})
        ELSE Rasterize(pt, ctx, t, t.final_z, junk)

(***************************************************************************)
(* Geometry set up once by main (holo.c 380-402).  cfg is the record of    *)
(* configuration values left by the option parsing (holo.c 323-353).       *)
(***************************************************************************)
quarter_w(cfg) == RDiv(cfg.W, I2R(4))
quarter_h(cfg) == RDiv(cfg.H, I2R(4))

\* sqrtf(quarter_w^2 + quarter_h^2), the length of the glyph's half diagonal
DiagHyp(cfg) ==
    RSqrt(RAdd(RMul(quarter_w(cfg), quarter_w(cfg)),
               RMul(quarter_h(cfg), quarter_h(cfg))))

\* cosf / sinf of diag_angle_rad = atan2f(quarter_h, quarter_w)
DiagCos(cfg) == RDiv(quarter_w(cfg), DiagHyp(cfg))
DiagSin(cfg) == RDiv(quarter_h(cfg), DiagHyp(cfg))

SegDef(px, py, c, s) == [pos_x |-> px, pos_y |-> py, cos_ra |-> c, sin_ra |-> s]

\* seg_defs[0..13] as seg_defs(cfg)[1..14]: position, and cos/sin of the
\* rotation (0, 90, or +-diag_angle degrees)
seg_defs(cfg) ==
    LET W2 == RDiv(cfg.W, I2R(2))
        H2 == RDiv(cfg.H, I2R(2))
        H4 == RDiv(cfg.H, I2R(4))
        qw == quarter_w(cfg)
        qh == quarter_h(cfg)
        c0 == I2R(1)
        s0 == Zero
        c90 == Zero
        s90 == I2R(1)
        cd == DiagCos(cfg)
        sd == DiagSin(cfg)
    IN  << SegDef(Zero, H2, c0, s0),
           SegDef(W2, H4, c90, s90),
           SegDef(W2, RNeg(H4), c90, s90),
           SegDef(Zero, RNeg(H2), c0, s0),
           SegDef(RNeg(W2), RNeg(H4), c90, s90),
           SegDef(RNeg(W2), H4, c90, s90),
           SegDef(RNeg(qw), Zero, c0, s0),
           SegDef(qw, Zero, c0, s0),
           SegDef(RNeg(qw), qh, cd, RNeg(sd)),
           SegDef(Zero, qh, c90, s90),
           SegDef(qw, qh, cd, sd),
           SegDef(RNeg(qw), RNeg(qh), cd, sd),
           SegDef(Zero, RNeg(qh), c90, s90),
           SegDef(qw, RNeg(qh), cd, RNeg(sd)) >>

segment_lengths(cfg) ==
    LET half_sw == RDiv(cfg.seg_w, I2R(2))
        horiz_len == RSub(RDiv(cfg.W, I2R(2)), half_sw)
        vert_outer_len == RSub(RDiv(cfg.H, I2R(2)), cfg.seg_w)
        vert_inner_len == RSub(quarter_h(cfg), half_sw)
        diag_len == RSub(DiagHyp(cfg), cfg.seg_w)
    IN  << horiz_len, vert_outer_len, vert_outer_len, horiz_len,
           vert_outer_len, vert_outer_len, horiz_len, horiz_len,
           diag_len, vert_inner_len, diag_len, diag_len,
           vert_inner_len, diag_len >>

char_spacing(cfg) == RMul(cfg.W, cfg.spacing_factor)

(***************************************************************************)
(* draw_rotated_point (holo.c 213-228) and draw_pointy_segment (235-272)   *)
(***************************************************************************)
\* a surface sample in segment-local space, with its 2D normal
Sample(px, py, pz, nx, ny) == [px |-> px, py |-> py, pz |-> pz, nx |-> nx, ny |-> ny]

draw_rotated_point(s, def, char_center_x, ctx, junk) ==
    LET rpx == RSub(RMul(s.px, def.cos_ra), RMul(s.py, def.sin_ra))
        rpy == RAdd(RMul(s.px, def.sin_ra), RMul(s.py, def.cos_ra))
        rnx == RSub(RMul(s.nx, def.cos_ra), RMul(s.ny, def.sin_ra))
        rny == RAdd(RMul(s.nx, def.sin_ra), RMul(s.ny, def.cos_ra))
    IN  project_and_draw([x |-> RAdd(RAdd(rpx, def.pos_x), char_center_x),
                          y |-> RAdd(rpy, def.pos_y),
                          z |-> s.pz,
                          nx |-> rnx, ny |-> rny, nz |-> Zero],
                         ctx, junk)

\* the values a loop  for (v = lo; v < hi; v += step)  runs through
RECURSIVE Steps(_, _, _)
Steps(lo, hi, step) ==
    IF RLt(lo, hi) THEN <<lo>> \o Steps(RAdd(lo, step), hi, step) ELSE <<>>

\* lines 240-247: the two flat faces, in the order the loops emit them
FlatSamples(length, seg_w, seg_t, density) ==
    LET is == Steps(RNeg(RDiv(length, I2R(2))), RDiv(length, I2R(2)), density)
        js == Steps(RNeg(RDiv(seg_t, I2R(2))), RDiv(seg_t, I2R(2)), density)
        half_w == RDiv(seg_w, I2R(2))
        per == 2 * Len(js)
    IN  [k \in 1..(Len(is) * per) |->
            LET i == is[((k - 1) \div per) + 1]
                j == js[(((k - 1) % per) \div 2) + 1]
            IN  IF (k - 1) % 2 = 0
                THEN Sample(i, half_w, j, Zero, I2R(1))
                ELSE Sample(i, RNeg(half_w), j, Zero, I2R(-1))]

\* lines 250-271: the four triangular faces of the pointy ends
CapSamples(length, seg_w, seg_t, point_len, density) ==
    LET half_w == RDiv(seg_w, I2R(2))
        nl == RSqrt(RAdd(RMul(half_w, half_w), RMul(point_len, point_len)))
    IN  IF RLt(nl, <<1, 100000>>) THEN <<>>
        ELSE
        LET cnx == RDiv(half_w, nl)
            cny == RDiv(point_len, nl)
            us == Steps(Zero, point_len, density)
            pzs == Steps(RNeg(RDiv(seg_t, I2R(2))), RDiv(seg_t, I2R(2)), density)
            per == 4 * Len(pzs)
        IN  [k \in 1..(Len(us) * per) |->
                LET u == us[((k - 1) \div per) + 1]
                    pz == pzs[(((k - 1) % per) \div 4) + 1]
                    yp == RMul(half_w, RSub(I2R(1), RDiv(u, point_len)))
                    p1 == RAdd(RDiv(length, I2R(2)), u)
                    p2 == RSub(RNeg(RDiv(length, I2R(2))), u)
                    f == (k - 1) % 4
                IN  IF f = 0 THEN Sample(p1, yp, pz, cnx, cny)
                    ELSE IF f = 1 THEN Sample(p1, RNeg(yp), pz, cnx, RNeg(cny))
                    ELSE IF f = 2 THEN Sample(p2, yp, pz, RNeg(cnx), cny)
                    ELSE Sample(p2, RNeg(yp), pz, RNeg(cnx), RNeg(cny))]

\* the calls of draw_rotated_point for samples[k..], threading the buffers
RECURSIVE DrawSamples(_, _, _, _, _, _)
DrawSamples(samples, k, def, char_center_x, ctx, junk) ==
    IF k > Len(samples) THEN ctx
    ELSE LET r == draw_rotated_point(samples[k], def, char_center_x, ctx, junk)
         IN  DrawSamples(samples, k + 1, def, char_center_x,
                         [ctx EXCEPT !.zbuffer = r.zbuffer, !.bbuffer = r.bbuffer],
                         junk)

\* the render context after the segment has been drawn into its buffers
draw_pointy_segment(length, seg_w, seg_t, point_len, def, char_center_x, density, ctx, junk) ==
    DrawSamples(FlatSamples(length, seg_w, seg_t, density)
                    \o CapSamples(length, seg_w, seg_t, point_len, density),
                1, def, char_center_x, ctx, junk)

(***************************************************************************)
(* Font data (holo.c 278-291) and the lookup of the frame loop (498-500)   *)
(***************************************************************************)
FourteenSegmentASCII ==
 << 0, 8198, 514, 4814, 4845, 16356, 9049, 512,
    9216, 2304, 16320, 4800, 2048, 192, 8192, 3072,
    3135, 1030, 219, 143, 230, 8297, 253, 7,
    255, 239, 4608, 2560, 9280, 200, 2432, 12419,
    699, 247, 4751, 57, 4623, 121, 113, 189,
    246, 4617, 30, 9328, 56, 1334, 8502, 63,
    243, 8255, 8435, 237, 4609, 62, 3120, 10294,
    11520, 238, 3081, 57, 8448, 15, 10240, 8,
    256, 4184, 8312, 216, 2190, 2136, 5312, 1166,
    4208, 4096, 2576, 13824, 48, 4308, 4176, 220,
    368, 1158, 80, 8328, 120, 28, 2064, 10260,
    11520, 654, 2120, 2377, 4608, 9353, 3264, 0 >>

\* char c = text_to_display[char_idx]: whether plain char is signed is the
\* build's choice; a byte >= 128 is negative where it is
CharValue(byte, signed) == IF signed /\ byte >= 128 THEN byte - 256 ELSE byte

\* a range test that forgets the lower end
ResolveCharUpper(c) == IF c >= ASCII_OFFSET + SUPPORTED_CHARS THEN SPACE ELSE c

\* line 499: a character outside the font's range is drawn as a space
ResolveChar(c) ==
    IF c < ASCII_OFFSET \/ c >= ASCII_OFFSET + SUPPORTED_CHARS THEN SPACE ELSE c

\* line 500: the index into the font table
FontIndex(c) == c - ASCII_OFFSET

\* line 505: (seg_data >> i) & 1
SegmentOn(seg_data, i) == (seg_data \div (2 ^ i)) % 2 = 1

\* the font table read of line 500 (an index outside the table reads junk)
FontAt(idx, junk) ==
    IF idx >= 0 /\ idx < SUPPORTED_CHARS THEN FourteenSegmentASCII[idx + 1] ELSE junk

(***************************************************************************)
(* The heap: realloc and free as main uses them.  heap[a] is the size in   *)
(* bytes of the live block at address a, or Free.  Freeing an address      *)
(* that holds no live block is undefined behaviour.                        *)
(***************************************************************************)
Free == -1
Addrs == 1..NumAddr
Live(h) == {a \in Addrs : h[a] # Free}

\* the values uninitialised memory is seen to hold
JunkBytes == {0, 63}

\* the address a new block is placed at: the lowest one free, if any
FirstFree(h) == {a \in Addrs \ Live(h) : \A b \in Addrs \ Live(h) : a <= b}

\* realloc(ptr, size): the outcomes the C library may produce.  A size
\* below 0 stands for a size_t that wrapped round to a huge request, which no
\* allocator grants.  realloc(p, 0) may free p and return NULL.  Otherwise
\* the call fails (the block stays), resizes the block in place, or moves it.
Realloc(h, ptr, size) ==
    IF size < 0 THEN {[ptr |-> NULL, heap |-> h]}
    ELSE {[ptr |-> NULL, heap |-> h]}
         \cup (IF size = 0 /\ ptr # NULL
               THEN {[ptr |-> NULL, heap |-> [h EXCEPT ![ptr] = Free]]}
               ELSE {})
         \cup (IF ptr # NULL
               THEN {[ptr |-> ptr, heap |-> [h EXCEPT ![ptr] = size]]}
               ELSE {})
         \cup {[ptr |-> a,
                heap |-> [b \in Addrs |->
                            IF b = a THEN size
                            ELSE IF b = ptr THEN Free
                            ELSE h[b]]] : a \in FirstFree(h)}

\* the contents of a block of n cells that realloc returned for a block
\* holding old: the common prefix is kept, the rest is uninitialised
Resized(old, n, fill) ==
    [k \in 0..(n - 1) |-> IF k \in DOMAIN old THEN old[k] ELSE fill]

\* free(p) on heap state st = [heap, bad]; bad records a free of an address
\* that holds no live block (a double free)
FreeOne(st, p) ==
    IF p = NULL THEN st
    ELSE IF st.heap[p] # Free THEN [st EXCEPT !.heap[p] = Free]
    ELSE [st EXCEPT !.bad = TRUE]

RECURSIVE FreeSeq(_, _)
FreeSeq(st, ps) ==
    IF ps = <<>> THEN st ELSE FreeSeq(FreeOne(st, Head(ps)), Tail(ps))

(***************************************************************************)
(* Configurations and inputs the model runs                                *)
(***************************************************************************)
DefaultPalette == <<46, 44, 45, 126, 58, 59, 61, 33, 42, 35, 36, 64>>

\* rotation angles as <<cos, sin>>
Turn0 == <<I2R(1), Zero>>

\* the default configuration (holo.c 53-67) with -w 16 -W 1.5 -p 1 -d 8 -s 0:
\* the text does not turn
BaseCfg ==
    [W |-> I2R(16), H |-> I2R(12), tilt |-> <<3, 10>>,
     spacing_factor |-> <<3, 2>>,
     seg_w |-> <<3, 2>>, seg_t |-> <<7, 4>>, point_len |-> I2R(1),
     light_x |-> <<3, 10>>, light_y |-> <<7, 10>>, contrast |-> I2R(20),
     density |-> I2R(8), palette |-> DefaultPalette,
     manual_zoom |-> I2R(-1), speedA |-> Turn0, speedB |-> Turn0]

MainConfigs == {BaseCfg}

\* the bytes a text may hold: '-'
TextBytes == {45}
Texts == UNION {[1..n -> TextBytes] : n \in 0..MaxTextLen}

TermSizes == [cols : 1..MaxCols, rows : 1..MaxRows]

(***************************************************************************)
(* State                                                                   *)
(***************************************************************************)
VARIABLES
    pc,                 \* where main is
    running,            \* volatile int running (line 78)
    terminal_resized,   \* volatile int terminal_resized (line 79)
    sw, sh,             \* main's screen dimensions
    zbuffer, bbuffer,   \* main's buffer pointers (an address, or NULL)
    heap,               \* the allocator's state
    zmem, bmem,         \* the contents of the two buffers, cell -> value
    zoom,
    rotA, rotB,         \* <<cosf(A), sinf(A)>>, <<cosf(B), sinf(B)>>
    cfg,                \* configuration left by the option parsing
    show_time_date,
    text,               \* the bytes of text_to_display
    text_len,
    char_idx, seg_i, seg_data,
    combined_args,
    charSigned,         \* whether plain char is signed in this build
    out,                \* what the terminal shows: cursor, last frame
    argv,               \* the command line after argv[0], option by option
    optind,             \* getopt's index of the next element of argv
    status,             \* what main returned (0 until it does)
    err,                \* the messages written to stderr
    \* observations of the run, read by the properties only
    interrupted,        \* handle_sigint has run
    allocFailed,        \* line 459 has seen a failed realloc
    doubleFree,         \* free was called on an address with no live block
    queried,            \* the size the last get_terminal_size returned
    sigPending,         \* SIGWINCH was delivered after the last size query
    abandoned,          \* a frame was left unflushed after handle_sigint ran
    rasterCalls,        \* draw_pointy_segment calls in this frame
    charCalls,          \* draw_pointy_segment calls for this character
    font_idx,           \* the last index used on FourteenSegmentASCII
    drawn,              \* per cell, the nearest point this frame's calls put on it
    call                \* the last single project_and_draw call

progVars == <<pc, running, terminal_resized, sw, sh, zbuffer, bbuffer,
              heap, zmem, bmem, zoom, rotA, rotB,
              cfg, show_time_date, text, text_len, char_idx, seg_i, seg_data,
              combined_args, charSigned, out, argv, optind, status, err>>
startVars == <<argv, optind, status, err>>
obsVars == <<interrupted, allocFailed, doubleFree,
             abandoned, queried, sigPending, rasterCalls, charCalls, font_idx,
             drawn, call>>
vars == <<progVars, obsVars>>

NoCall == [final_z |-> I2R(1), reads |-> {}, writes |-> {}, palette_reads |-> {},
           cell |-> <<>>, stored |-> Zero, made |-> FALSE]

\* RenderContext ctx = { ... } (lines 481-490)
RenderContext ==
    [zbuffer |-> zmem, bbuffer |-> bmem, sw |-> sw, sh |-> sh,
     cosA |-> rotA[1], sinA |-> rotA[2], cosB |-> rotB[1], sinB |-> rotB[2],
     zoom |-> zoom, tilt_factor |-> cfg.tilt,
     light_x |-> cfg.light_x, light_y |-> cfg.light_y,
     contrast |-> cfg.contrast,
     palette |-> cfg.palette, palette_len |-> Len(cfg.palette)]

EmptyBuf == [k \in {} |-> Zero]

\* a command line whose options and words are not looked at
NoArgs == [opts |-> <<>>, words |-> <<>>]

\* the state main is in when it reaches the render loop (line 428)
Init ==
    /\ pc = "loop_test"
    /\ running = 1
    /\ terminal_resized = 1
    /\ sw = 0 /\ sh = 0
    /\ zbuffer = NULL /\ bbuffer = NULL
    /\ zmem = EmptyBuf /\ bmem = EmptyBuf
    /\ zoom = I2R(1)
    /\ rotA = Turn0 /\ rotB = Turn0
    /\ cfg \in MainConfigs
    /\ show_time_date \in BOOLEAN
    /\ text \in (IF show_time_date THEN {<<>>} ELSE Texts)
    /\ text_len = 0
    /\ char_idx = 0 /\ seg_i = 0 /\ seg_data = 0
    /\ combined_args = (IF show_time_date THEN NULL ELSE 1)
    /\ heap = [a \in Addrs |-> IF a = 1 /\ ~show_time_date THEN Len(text) + 1 ELSE Free]
    /\ charSigned = TRUE
    /\ out = [cursor_hidden |-> TRUE, cleared |-> TRUE,
              cursor_shown |-> FALSE, frame |-> <<>>]
    /\ argv = NoArgs /\ optind = 1 /\ status = 0 /\ err = {}
    /\ interrupted = FALSE
    /\ allocFailed = FALSE
    /\ doubleFree = FALSE
    /\ abandoned = FALSE
    /\ queried = [cols |-> 0, rows |-> 0]
    /\ sigPending = FALSE
    /\ rasterCalls = 0 /\ charCalls = 0
    /\ font_idx = 0
    /\ drawn = {}
    /\ call = NoCall

Stopped == pc \in {"done", "crashed"}

(***************************************************************************)
(* Signal handlers (holo.c 81-89).  A handler may run between any two      *)
(* steps of main.                                                          *)
(***************************************************************************)
handle_sigint ==
    /\ ~Stopped
    /\ UNCHANGED startVars
    /\ running' = 0
    /\ interrupted' = TRUE
    /\ UNCHANGED <<pc, terminal_resized, sw, sh, zbuffer, bbuffer,
                   heap, zmem, bmem, zoom, rotA, rotB,
                   cfg, show_time_date, text, text_len, char_idx, seg_i,
                   seg_data, combined_args, charSigned, out>>
    /\ UNCHANGED <<allocFailed, doubleFree, abandoned, queried, sigPending,
                   rasterCalls, charCalls, font_idx, drawn, call>>

handle_sigwinch ==
    /\ ~Stopped
    /\ UNCHANGED startVars
    /\ terminal_resized' = 1
    /\ sigPending' = TRUE
    /\ UNCHANGED <<pc, running, sw, sh, zbuffer, bbuffer,
                   heap, zmem, bmem, zoom, rotA, rotB,
                   cfg, show_time_date, text, text_len, char_idx, seg_i,
                   seg_data, combined_args, charSigned, out>>
    /\ UNCHANGED <<interrupted, allocFailed, doubleFree, abandoned, queried,
                   rasterCalls, charCalls, font_idx, drawn, call>>

(***************************************************************************)
(* main's render loop (holo.c 429-544) and cleanup (547-552)               *)
(***************************************************************************)
\* lines 547-552, run on the heap h after the frees before them went wrong
\* (bad) or not: show the cursor, free the buffers and the joined text, return.
\* A free of an address with no live block is undefined: the process may
\* abort there or carry on.
Cleanup(h, bad) ==
    LET st == FreeSeq([heap |-> h, bad |-> bad],
                      <<zbuffer, bbuffer, combined_args>>)
    IN  {[heap |-> st.heap, bad |-> st.bad, pc |-> "done", shown |-> TRUE]} \cup
        (IF st.bad
         THEN {[heap |-> st.heap, bad |-> st.bad, pc |-> "crashed", shown |-> TRUE]}
         ELSE {})

\* The process ends as e says.  What it leaves behind is the allocator's
\* state and the terminal; its own variables no longer exist, and stand at
\* the values they started with.
Leave(e) ==
    /\ pc' = e.pc
    /\ heap' = e.heap
    /\ doubleFree' = (doubleFree \/ e.bad)
    /\ out' = [out EXCEPT !.cursor_shown = e.shown]
    /\ running' = 0
    /\ terminal_resized' = 0
    /\ sw' = 0 /\ sh' = 0
    /\ zbuffer' = NULL /\ bbuffer' = NULL
    /\ zmem' = EmptyBuf /\ bmem' = EmptyBuf
    /\ zoom' = I2R(1)
    /\ rotA' = Turn0 /\ rotB' = Turn0
    /\ text' = <<>> /\ text_len' = 0
    /\ char_idx' = 0 /\ seg_i' = 0 /\ seg_data' = 0
    /\ combined_args' = NULL
    /\ queried' = [cols |-> 0, rows |-> 0]
    /\ sigPending' = FALSE
    /\ rasterCalls' = 0 /\ charCalls' = 0 /\ font_idx' = 0
    /\ status' = (IF e.pc = "done" THEN 0 ELSE status)
    /\ UNCHANGED <<cfg, show_time_date, charSigned, interrupted, drawn, call>>
    /\ UNCHANGED <<argv, optind>>

\* lines 429-449: while (running), then the frame's text (strftime may
\* format any text) and its length; when running is 0, the cleanup
LoopTest ==
    /\ pc = "loop_test"
    /\ IF running # 0
       THEN /\ pc' = "check_resize"
            /\ IF show_time_date THEN text' \in Texts ELSE text' = text
            /\ text_len' = Len(text')
            /\ UNCHANGED <<running, terminal_resized, sw, sh, zbuffer, bbuffer,
                           heap, zmem, bmem, zoom, rotA, rotB,
                           cfg, show_time_date, char_idx, seg_i,
                           seg_data, combined_args, charSigned, out>>
            /\ UNCHANGED <<interrupted, doubleFree, queried, sigPending,
                           rasterCalls, charCalls, font_idx, drawn, call>>
            /\ UNCHANGED <<argv, optind, status>>
       ELSE \E e \in Cleanup(heap, FALSE) : Leave(e)
    /\ UNCHANGED <<allocFailed, abandoned, err>>

\* line 441
start_x(len, c) == RDiv(RMul(I2R(-(len - 1)), char_spacing(c)), I2R(2))

\* line 442
total_text_3d_width(len, c) ==
    IF len > 1 THEN RAdd(RMul(I2R(len - 1), char_spacing(c)), c.W) ELSE c.W

\* a height that keeps the last row
ScreenRowsKept(rows) == rows

\* line 453: sh -= 1
ScreenRows(rows) == rows - 1

\* lines 451-453: if (terminal_resized) { get_terminal_size(&sw, &sh); sh -= 1;
get_terminal_size ==
    /\ pc = "check_resize"
    /\ UNCHANGED startVars
    /\ IF terminal_resized # 0
       THEN /\ \E size \in TermSizes :
                  /\ sw' = size.cols
                  /\ sh' = ScreenRows(size.rows)
                  /\ queried' = size
            /\ sigPending' = FALSE
            /\ pc' = "realloc"
       ELSE /\ pc' = "clear"
            /\ UNCHANGED <<sw, sh, queried, sigPending>>
    /\ UNCHANGED <<running, terminal_resized, zbuffer, bbuffer,
                   heap, zmem, bmem, zoom, rotA, rotB,
                   cfg, show_time_date, text, text_len, char_idx, seg_i,
                   seg_data, combined_args, charSigned, out>>
    /\ UNCHANGED <<interrupted, allocFailed, doubleFree, abandoned,
                   rasterCalls, charCalls, font_idx, drawn, call>>

\* line 455: size_t buffer_size = sw * sh (below 0: wrapped round)
buffer_size(w, h) == w * h

SCREEN_PADDING_FACTOR == <<17, 20>>

\* a zoom that fits the height only
AutoZoomHeight(w, h, len, c) ==
    IF RLe(c.manual_zoom, Zero)
    THEN RDiv(RMul(RMul(I2R(h), SCREEN_PADDING_FACTOR), I2R(CAMERA_DISTANCE)), c.H)
    ELSE c.manual_zoom

\* lines 468-475
AutoZoom(w, h, len, c) ==
    IF RLe(c.manual_zoom, Zero)
    THEN LET zoom_h == RDiv(RMul(RMul(I2R(h), SCREEN_PADDING_FACTOR),
                                 I2R(CAMERA_DISTANCE)), c.H)
             zoom_w == RDiv(RMul(RMul(I2R(w), SCREEN_PADDING_FACTOR),
                                 I2R(CAMERA_DISTANCE)),
                            RMul(total_text_3d_width(len, c), I2R(2)))
         IN  RMin(zoom_h, zoom_w)
    ELSE c.manual_zoom

\* lines 456-477: the two reallocs (oz, ob: what new_zbuffer and new_bbuffer
\* get; fill: what fresh memory holds) and the test of them.  On failure the
\* four frees of lines 461-462 run, running is cleared and the loop continues
\* at its test, which sends it to the cleanup; the process may abort at a
\* free of an address with no live block.  On success the pointers are taken,
\* the zoom is set, the screen is cleared and terminal_resized = 0.
Reallocate ==
    /\ pc = "realloc"
    /\ \E oz \in Realloc(heap, zbuffer, buffer_size(sw, sh) * SizeofFloat) :
       \E ob \in Realloc(oz.heap, bbuffer, buffer_size(sw, sh)) :
          IF oz.ptr = NULL \/ ob.ptr = NULL
          THEN LET st == FreeSeq([heap |-> ob.heap, bad |-> FALSE],
                                 <<oz.ptr, ob.ptr, zbuffer, bbuffer>>)
                   abort == IF st.bad
                            THEN {[heap |-> st.heap, bad |-> TRUE,
                                   pc |-> "crashed", shown |-> FALSE]}
                            ELSE {}
               IN  /\ \E e \in abort \cup Cleanup(st.heap, st.bad) : Leave(e)
                   /\ allocFailed' = TRUE
                   /\ abandoned' = interrupted
                   /\ err' = err \cup {"Buffer reallocation failed. Exiting."}
          ELSE /\ heap' = ob.heap
               /\ zbuffer' = oz.ptr
               /\ bbuffer' = ob.ptr
               /\ \E fill \in JunkBytes :
                     /\ zmem' = Resized(zmem, buffer_size(sw, sh), I2R(fill))
                     /\ bmem' = Resized(bmem, buffer_size(sw, sh), fill)
               /\ zoom' = AutoZoom(sw, sh, text_len, cfg)
               /\ out' = [out EXCEPT !.frame = <<>>]
               /\ terminal_resized' = 0
               /\ pc' = "clear"
               /\ UNCHANGED <<running, sw, sh, rotA, rotB,
                              cfg, show_time_date, text, text_len, char_idx,
                              seg_i, seg_data, combined_args, charSigned>>
               /\ UNCHANGED <<interrupted, allocFailed, doubleFree, abandoned,
                              queried, sigPending, rasterCalls, charCalls,
                              font_idx, drawn, call>>
               /\ UNCHANGED startVars

\* a count that stops a cell short
ClearCountShort(w, h) == w * h - 1

\* the number of cells the memsets of lines 493-494 cover
ClearCount(w, h) == w * h

\* memset over the first n cells of a buffer
Memset(buf, v, n) == [k \in DOMAIN buf |-> IF k < n THEN v ELSE buf[k]]

\* lines 481-494: build the render context, clear both buffers
ClearBuffers ==
    /\ pc = "clear"
    /\ UNCHANGED startVars
    /\ bmem' = Memset(bmem, SPACE, ClearCount(sw, sh))
    /\ zmem' = Memset(zmem, Zero, ClearCount(sw, sh))
    /\ char_idx' = 0
    /\ rasterCalls' = 0
    /\ charCalls' = 0
    /\ pc' = "chars"
    /\ UNCHANGED <<running, terminal_resized, sw, sh, zbuffer, bbuffer,
                   heap, zoom, rotA, rotB,
                   cfg, show_time_date, text, text_len, seg_i,
                   seg_data, combined_args, charSigned, out>>
    /\ UNCHANGED <<interrupted, allocFailed, doubleFree,
                   abandoned, queried, sigPending, font_idx, drawn, call>>

\* lines 497-501: the next character, its segment mask
CharStep ==
    /\ pc = "chars"
    /\ UNCHANGED startVars
    /\ IF char_idx < text_len
       THEN LET c == ResolveChar(CharValue(text[char_idx + 1], charSigned))
            IN  /\ font_idx' = FontIndex(c)
                /\ \E junk \in JunkBytes : seg_data' = FontAt(FontIndex(c), junk)
                /\ seg_i' = 0
                /\ charCalls' = 0
                /\ pc' = "segs"
            /\ UNCHANGED char_idx
       ELSE /\ pc' = "flush"
            /\ char_idx' = 0
            /\ UNCHANGED <<font_idx, seg_data, seg_i, charCalls>>
    /\ UNCHANGED <<running, terminal_resized, sw, sh, zbuffer, bbuffer,
                   heap, zmem, bmem, zoom, rotA, rotB,
                   cfg, show_time_date, text, text_len,
                   combined_args, charSigned, out>>
    /\ UNCHANGED <<interrupted, allocFailed, doubleFree,
                   abandoned, queried, sigPending, rasterCalls, drawn, call>>

\* line 501
char_center_x(idx, len, c) == RAdd(start_x(len, c), RMul(I2R(idx), char_spacing(c)))

\* the first segment from i on that seg_data switches on, or NUM_SEGMENTS
NextOn(seg, i) ==
    LET on == {k \in i..(NUM_SEGMENTS - 1) : SegmentOn(seg, k)}
    IN  IF on = {} THEN NUM_SEGMENTS ELSE CHOOSE k \in on : \A m \in on : k <= m

\* lines 504-508: the turns of the segment loop up to and including the next
\* one that draws a segment; when none is left, char_idx++
SegStep ==
    /\ pc = "segs"
    /\ UNCHANGED startVars
    /\ LET i == NextOn(seg_data, seg_i)
       IN  IF i < NUM_SEGMENTS
           THEN /\ \E junk \in JunkBytes :
                      \E r \in {draw_pointy_segment(
                                   segment_lengths(cfg)[i + 1], cfg.seg_w,
                                   cfg.seg_t, cfg.point_len,
                                   seg_defs(cfg)[i + 1],
                                   char_center_x(char_idx, text_len, cfg),
                                   cfg.density, RenderContext, junk)} :
                          /\ zmem' = r.zbuffer
                          /\ bmem' = r.bbuffer
                /\ rasterCalls' = rasterCalls + 1
                /\ charCalls' = charCalls + 1
                /\ seg_i' = i + 1
                /\ UNCHANGED <<pc, char_idx>>
                /\ UNCHANGED <<seg_data, font_idx>>
           ELSE /\ char_idx' = char_idx + 1
                /\ pc' = "chars"
                /\ seg_i' = 0
                /\ seg_data' = 0
                /\ font_idx' = 0
                /\ charCalls' = 0
                /\ UNCHANGED <<zmem, bmem, rasterCalls>>
    /\ UNCHANGED <<running, terminal_resized, sw, sh, zbuffer, bbuffer,
                   heap, zoom, rotA, rotB,
                   cfg, show_time_date, text, text_len,
                   combined_args, charSigned, out>>
    /\ UNCHANGED <<interrupted, allocFailed, doubleFree,
                   abandoned, queried, sigPending, drawn, call>>

\* a flush that stops before the last row
FlushedRowsButLast(buf, w, h) ==
    [y \in 1..(h - 1) |-> [x \in 1..w |-> buf[(y - 1) * w + (x - 1)]]]

\* lines 512-517: the sh rows of sw characters written to the terminal
FlushedRows(buf, w, h) ==
    [y \in 1..h |-> [x \in 1..w |-> buf[(y - 1) * w + (x - 1)]]]

\* cosf / sinf of an angle advanced by the angle d
Advance(r, d) ==
    <<RSub(RMul(r[1], d[1]), RMul(r[2], d[2])),
      RAdd(RMul(r[2], d[1]), RMul(r[1], d[2]))>>

\* lines 512-543: flush the frame, A += speedA, B += speedB, sleep
Flush ==
    /\ pc = "flush"
    /\ UNCHANGED startVars
    /\ out' = [out EXCEPT !.frame = FlushedRows(bmem, sw, sh)]
    /\ rotA' = Advance(rotA, cfg.speedA)
    /\ rotB' = Advance(rotB, cfg.speedB)
    /\ pc' = "loop_test"
    /\ UNCHANGED <<running, terminal_resized, sw, sh, zbuffer, bbuffer,
                   heap, zmem, bmem, zoom,
                   cfg, show_time_date, text, text_len, char_idx, seg_i,
                   seg_data, combined_args, charSigned>>
    /\ UNCHANGED <<interrupted, allocFailed, doubleFree, abandoned, queried, sigPending,
                   rasterCalls, charCalls, font_idx, drawn, call>>

Next ==
    \/ handle_sigint
    \/ handle_sigwinch
    \/ LoopTest
    \/ get_terminal_size
    \/ Reallocate
    \/ ClearBuffers
    \/ CharStep
    \/ SegStep
    \/ Flush

Spec == Init /\ [][Next]_vars

(***************************************************************************)
(* project_and_draw on its own: single calls on points and render contexts *)
(* drawn from bounded sets, between the clears of successive frames        *)
(***************************************************************************)
\* cosf, sinf of the angle whose tangent is 4/3
Turn345 == <<Rat(3, 5), Rat(4, 5)>>

\* the rotation states <<A, B>> of a render context
DrawRotations == {<<Turn0, Turn0>>, <<Turn345, Turn0>>, <<Turn0, Turn345>>}

\* the palettes the option parsing lets through (-P takes any string)
DrawPalettes == {DefaultPalette, <<46, 35>>, <<>>}

\* points and normals handed to project_and_draw
DrawPoints ==
    [x : {Rat(-1, 2), Zero, Rat(1, 2)}, y : {Zero},
     z : {Zero, I2R(5), I2R(-25), I2R(-50)},
     nx : {Zero}, ny : {I2R(1), I2R(-1)}, nz : {Zero}]
    \cup
    [x : {Rat(-1, 2), Zero, Rat(1, 2)}, y : {Zero},
     z : {Zero, I2R(5), I2R(-25), I2R(-50)},
     nx : {I2R(1)}, ny : {Zero}, nz : {Zero}]

InitDraw ==
    /\ pc = "clear"
    /\ running = 1
    /\ terminal_resized = 0
    /\ queried \in TermSizes
    /\ sw = queried.cols
    /\ sh = ScreenRows(queried.rows)
    /\ zbuffer = 1 /\ bbuffer = 2
    /\ heap = [a \in Addrs |-> IF a = 1 THEN buffer_size(sw, sh) * SizeofFloat
                               ELSE IF a = 2 THEN buffer_size(sw, sh)
                               ELSE Free]
    /\ \E fill \in JunkBytes :
          /\ zmem = Resized(EmptyBuf, buffer_size(sw, sh), I2R(fill))
          /\ bmem = Resized(EmptyBuf, buffer_size(sw, sh), fill)
    /\ zoom = I2R(CAMERA_DISTANCE)
    /\ \E r \in DrawRotations : rotA = r[1] /\ rotB = r[2]
    /\ \E pal \in DrawPalettes : cfg = [BaseCfg EXCEPT !.palette = pal]
    /\ show_time_date = TRUE
    /\ text = <<>>
    /\ text_len = 0
    /\ char_idx = 0 /\ seg_i = 0 /\ seg_data = 0
    /\ combined_args = NULL
    /\ charSigned = TRUE
    /\ out = [cursor_hidden |-> TRUE, cleared |-> TRUE,
              cursor_shown |-> FALSE, frame |-> <<>>]
    /\ argv = NoArgs /\ optind = 1 /\ status = 0 /\ err = {}
    /\ sigPending = FALSE
    /\ interrupted = FALSE
    /\ allocFailed = FALSE
    /\ doubleFree = FALSE
    /\ abandoned = FALSE
    /\ rasterCalls = 0 /\ charCalls = 0
    /\ font_idx = 0
    /\ drawn = {}
    /\ call = NoCall

\* the nearest point on each cell once a call has put the point of inverse
\* depth ooz and character ch on cell idx
Nearest(d, idx, ooz, ch) ==
    LET prev == {e \in d : e.idx = idx}
    IN  IF \A e \in prev : RLt(e.ooz, ooz)
        THEN (d \ prev) \cup {[idx |-> idx, ooz |-> ooz, ch |-> ch]}
        ELSE d

\* the values an out-of-bounds read of a call may yield: the call r0, made
\* with the value 0, shows whether there is such a read
JunkOf(r0, ctx) ==
    IF /\ r0.reads \subseteq DOMAIN ctx.zbuffer
       /\ r0.palette_reads \subseteq 0..(ctx.palette_len - 1)
    THEN {0}
    ELSE JunkBytes

\* one call of project_and_draw (as line 227 makes it) on the frame's context
DrawPoint ==
    /\ pc = "chars"
    /\ UNCHANGED startVars
    /\ \E pt \in DrawPoints, ctx \in {RenderContext} :
       \E r0 \in {project_and_draw(pt, ctx, 0)} :
       \E junk \in JunkOf(r0, ctx) :
          \E r \in {IF junk = 0 THEN r0 ELSE project_and_draw(pt, ctx, junk)} :
              /\ zmem' = r.zbuffer
              /\ bmem' = r.bbuffer
              /\ call' = [final_z |-> r.final_z, reads |-> r.reads,
                          writes |-> r.writes,
                          palette_reads |-> r.palette_reads, cell |-> r.cell,
                          stored |-> IF r.reads = {} THEN Zero
                                     ELSE Load(zmem, r.cell[1] + sw * r.cell[2],
                                               I2R(junk)),
                          made |-> TRUE]
              /\ drawn' = IF r.cell = <<>> THEN drawn
                          ELSE Nearest(drawn, r.cell[1] + sw * r.cell[2],
                                       RDiv(I2R(1), r.final_z),
                                       PaletteAt(ctx.palette, PaletteIdx(pt, ctx),
                                                 junk))
    /\ UNCHANGED <<pc, running, terminal_resized, sw, sh, zbuffer, bbuffer,
                   heap, zoom, rotA, rotB,
                   cfg, show_time_date, text, text_len, char_idx, seg_i,
                   seg_data, combined_args, charSigned, out>>
    /\ UNCHANGED <<interrupted, allocFailed, doubleFree, abandoned, queried,
                   sigPending, rasterCalls, charCalls, font_idx>>

\* the frame ends; the next one starts at its clear
NextFrame ==
    /\ pc = "chars"
    /\ UNCHANGED startVars
    /\ pc' = "clear"
    /\ drawn' = {}
    /\ call' = NoCall
    /\ UNCHANGED <<running, terminal_resized, sw, sh, zbuffer, bbuffer,
                   heap, zmem, bmem, zoom, rotA, rotB,
                   cfg, show_time_date, text, text_len, char_idx, seg_i,
                   seg_data, combined_args, charSigned, out>>
    /\ UNCHANGED <<interrupted, allocFailed, doubleFree, abandoned, queried,
                   sigPending, rasterCalls, charCalls, font_idx>>

NextDraw ==
    \/ ClearBuffers
    \/ DrawPoint
    \/ NextFrame

SpecDraw == InitDraw /\ [][NextDraw]_vars

(***************************************************************************)
(* The character loop (holo.c 497-509) on every one-byte text, for a build *)
(* with signed and a build with unsigned plain char: the frame after its   *)
(* clear, on a terminal of two columns and two rows                        *)
(***************************************************************************)
\* the bytes a C string may hold
Bytes == 1..255

InitFont ==
    /\ pc = "chars"
    /\ running = 1
    /\ terminal_resized = 0
    /\ queried = [cols |-> 2, rows |-> 2]
    /\ sw = queried.cols
    /\ sh = ScreenRows(queried.rows)
    /\ combined_args = 1 /\ zbuffer = 2 /\ bbuffer = 3
    /\ text \in [1..1 -> Bytes]
    /\ text_len = Len(text)
    /\ heap = [a \in Addrs |-> IF a = 1 THEN Len(text) + 1
                               ELSE IF a = 2 THEN buffer_size(sw, sh) * SizeofFloat
                               ELSE IF a = 3 THEN buffer_size(sw, sh)
                               ELSE Free]
    /\ zmem = Resized(EmptyBuf, buffer_size(sw, sh), Zero)
    /\ bmem = Resized(EmptyBuf, buffer_size(sw, sh), SPACE)
    /\ cfg = BaseCfg
    /\ zoom = AutoZoom(sw, sh, text_len, cfg)
    /\ rotA = Turn0 /\ rotB = Turn0
    /\ show_time_date = FALSE
    /\ char_idx = 0 /\ seg_i = 0 /\ seg_data = 0
    /\ charSigned \in BOOLEAN
    /\ out = [cursor_hidden |-> TRUE, cleared |-> TRUE,
              cursor_shown |-> FALSE, frame |-> <<>>]
    /\ argv = NoArgs /\ optind = 1 /\ status = 0 /\ err = {}
    /\ sigPending = FALSE
    /\ interrupted = FALSE
    /\ allocFailed = FALSE
    /\ doubleFree = FALSE
    /\ abandoned = FALSE
    /\ rasterCalls = 0 /\ charCalls = 0
    /\ font_idx = 0
    /\ drawn = {}
    /\ call = NoCall

NextFont ==
    \/ CharStep
    \/ SegStep
    \/ Flush

SpecFont == InitFont /\ [][NextFont]_vars

(***************************************************************************)
(* The render loop of a text that turns, and of a text with a manual zoom: *)
(* frames follow one another with the terminal resized between them        *)
(***************************************************************************)
\* cosf, sinf of a half turn
Turn180 == <<I2R(-1), Zero>>

\* -a with a half turn of pitch per frame; -z 2
TurnConfigs ==
    {[BaseCfg EXCEPT !.speedA = Turn180],
     [BaseCfg EXCEPT !.manual_zoom = I2R(2)]}

InitTurn ==
    /\ pc = "loop_test"
    /\ running = 1
    /\ terminal_resized = 1
    /\ sw = 0 /\ sh = 0
    /\ zbuffer = NULL /\ bbuffer = NULL
    /\ zmem = EmptyBuf /\ bmem = EmptyBuf
    /\ zoom = I2R(1)
    /\ rotA = Turn0 /\ rotB = Turn0
    /\ cfg \in TurnConfigs
    /\ show_time_date \in BOOLEAN
    /\ text \in (IF show_time_date THEN {<<>>} ELSE Texts)
    /\ text_len = 0
    /\ char_idx = 0 /\ seg_i = 0 /\ seg_data = 0
    /\ combined_args = (IF show_time_date THEN NULL ELSE 1)
    /\ heap = [a \in Addrs |-> IF a = 1 /\ ~show_time_date THEN Len(text) + 1 ELSE Free]
    /\ charSigned = TRUE
    /\ out = [cursor_hidden |-> TRUE, cleared |-> TRUE,
              cursor_shown |-> FALSE, frame |-> <<>>]
    /\ argv = NoArgs /\ optind = 1 /\ status = 0 /\ err = {}
    /\ interrupted = FALSE
    /\ allocFailed = FALSE
    /\ doubleFree = FALSE
    /\ abandoned = FALSE
    /\ queried = [cols |-> 0, rows |-> 0]
    /\ sigPending = FALSE
    /\ rasterCalls = 0 /\ charCalls = 0
    /\ font_idx = 0
    /\ drawn = {}
    /\ call = NoCall

NextTurn ==
    \/ handle_sigwinch
    \/ LoopTest
    \/ get_terminal_size
    \/ Reallocate
    \/ ClearBuffers
    \/ CharStep
    \/ SegStep
    \/ Flush

SpecTurn == InitTurn /\ [][NextTurn]_vars

(***************************************************************************)
(* Startup (holo.c 321-428): the options are parsed one by one, the words  *)
(* after them are joined into the text, the cursor is hidden and the       *)
(* screen cleared.  The command line is [opts, words]: the options with    *)
(* their arguments, as sequences of characters, and the words after them.  *)
(***************************************************************************)
Digits == <<"0", "1", "2", "3", "4", "5", "6", "7", "8", "9">>
IsDigit(c) == \E i \in 1..Len(Digits) : Digits[i] = c
DigitVal(c) == (CHOOSE i \in 1..Len(Digits) : Digits[i] = c) - 1

RECURSIVE SkipSpace(_, _)
SkipSpace(s, i) ==
    IF i <= Len(s) /\ s[i] = " " THEN SkipSpace(s, i + 1) ELSE i

\* the run of digits from s[i] on: its value after acc, how many, where it ends
RECURSIVE ScanDigits(_, _, _, _)
ScanDigits(s, i, acc, n) ==
    IF i <= Len(s) /\ IsDigit(s[i])
    THEN ScanDigits(s, i + 1, Len(Digits) * acc + DigitVal(s[i]), n + 1)
    ELSE [val |-> acc, n |-> n, next |-> i]

RECURSIVE Pow10(_)
Pow10(n) == IF n = 0 THEN 1 ELSE Len(Digits) * Pow10(n - 1)

\* strtod from s[i] on, for decimal text without exponent: white space, a
\* sign, digits, a point, digits, with a digit somewhere.  eof: the text
\* ended before anything but white space
strtod(s, i) ==
    LET b == SkipSpace(s, i)
        neg == b <= Len(s) /\ s[b] = "-"
        d == IF b <= Len(s) /\ s[b] \in {"-", "+"} THEN b + 1 ELSE b
        ip == ScanDigits(s, d, 0, 0)
        fp == IF ip.next <= Len(s) /\ s[ip.next] = "."
              THEN ScanDigits(s, ip.next + 1, 0, 0)
              ELSE [val |-> 0, n |-> 0, next |-> ip.next]
        ok == ip.n + fp.n > 0
        mag == Rat(ip.val * Pow10(fp.n) + fp.val, Pow10(fp.n))
    IN  [ok |-> ok,
         val |-> IF ~ok THEN Zero ELSE IF neg THEN RNeg(mag) ELSE mag,
         next |-> IF ok THEN fp.next ELSE i,
         eof |-> b > Len(s)]

\* atof(s): strtod's value, 0 when s does not start with a number
atof(s) == strtod(s, 1).val

\* sscanf(s, "%f,%f", &light_x, &light_y) at line 348: the count it returns
\* (EOF when s ends before the first number) and what the two floats hold
\* afterwards, lx and ly being what they held before
sscanf_light(s, lx, ly) ==
    LET x == strtod(s, 1)
        y == strtod(s, x.next + 1)
    IN  IF ~x.ok
        THEN [n |-> IF x.eof THEN -1 ELSE 0, light_x |-> lx, light_y |-> ly]
        ELSE IF ~(x.next <= Len(s) /\ s[x.next] = ",")
        THEN [n |-> 1, light_x |-> x.val, light_y |-> ly]
        ELSE IF ~y.ok
        THEN [n |-> 1, light_x |-> x.val, light_y |-> ly]
        ELSE [n |-> 2, light_x |-> x.val, light_y |-> y.val]

\* the option letters of line 333 that take an argument
OptString ==
    {"s", "a", "b", "w", "h", "z", "t", "W", "T", "p", "L", "P", "c", "d", "S", "f"}

\* getopt's result for the element e: '?' for -? and for a letter it does
\* not know
getopt(e) == IF e.opt \in OptString THEN e.opt ELSE "?"

\* line 347: if (density <= 0)
DensityRejected(d) == RLe(d, Zero)

\* the arguments tried for -d: 8, 0.5; 0, -1, x
GoodDensityArgs == {<<"8">>, <<"0", ".", "5">>}
BadDensityArgs == {<<"0">>, <<"-", "1">>, <<"x">>}

\* the arguments tried for -L: "1,1", "-1,.5", two numbers and more "1,1x";
\* "1", "x", "1,x", ",1", the empty argument
GoodLightArgs == {<<"1", ",", "1">>, <<"-", "1", ",", ".", "5">>,
                  <<"1", ",", "1", "x">>}
BadLightArgs == {<<"1">>, <<"x">>, <<"1", ",", "x">>, <<",", "1">>, <<>>}

\* -d and -L with the arguments above, -z 2, -? and a letter getopt does not
\* know
Options ==
    [opt : {"d"}, arg : GoodDensityArgs \cup BadDensityArgs]
    \cup [opt : {"L"}, arg : GoodLightArgs \cup BadLightArgs]
    \cup {[opt |-> "z", arg |-> <<"2">>],
          [opt |-> "?", arg |-> <<>>],
          [opt |-> "q", arg |-> <<>>]}

\* at most MaxOpts options, then no word or one word of text
Argvs ==
    [opts : UNION {[1..n -> Options] : n \in 0..MaxOpts},
     words : {<<>>} \cup {<<t>> : t \in Texts}]

\* lines 366 and 368-374: the length malloc is asked for, and the words
\* joined by spaces
RECURSIVE total_len(_)
total_len(words) ==
    IF words = <<>> THEN 0 ELSE Len(Head(words)) + 1 + total_len(Tail(words))

RECURSIVE JoinWords(_)
JoinWords(words) ==
    IF Len(words) = 1 THEN Head(words)
    ELSE Head(words) \o <<SPACE>> \o JoinWords(Tail(words))

\* main at its first statement: nothing parsed, allocated or written
InitStart ==
    /\ pc = "getopt"
    /\ argv \in Argvs
    /\ optind = 1
    /\ status = 0
    /\ err = {}
    /\ cfg = BaseCfg
    /\ running = 1
    /\ terminal_resized = 1
    /\ sw = 0 /\ sh = 0
    /\ zbuffer = NULL /\ bbuffer = NULL
    /\ zmem = EmptyBuf /\ bmem = EmptyBuf
    /\ zoom = I2R(1)
    /\ rotA = Turn0 /\ rotB = Turn0
    /\ show_time_date = FALSE
    /\ text = <<>>
    /\ text_len = 0
    /\ char_idx = 0 /\ seg_i = 0 /\ seg_data = 0
    /\ combined_args = NULL
    /\ heap = [a \in Addrs |-> Free]
    /\ charSigned = TRUE
    /\ out = [cursor_hidden |-> FALSE, cleared |-> FALSE,
              cursor_shown |-> FALSE, frame |-> <<>>]
    /\ interrupted = FALSE
    /\ allocFailed = FALSE
    /\ doubleFree = FALSE
    /\ abandoned = FALSE
    /\ queried = [cols |-> 0, rows |-> 0]
    /\ sigPending = FALSE
    /\ rasterCalls = 0 /\ charCalls = 0
    /\ font_idx = 0
    /\ drawn = {}
    /\ call = NoCall

\* one turn of the loop of lines 333-353 on the element e with the
\* configuration c: the configuration it leaves, and whether main returns
\* there, with which status and message
ParseCase(e, c) ==
    LET opt == getopt(e)
        go(c2) == [cfg |-> c2, returns |-> FALSE, status |-> 0, msg |-> {}]
    IN  CASE opt = "d" ->
               LET c2 == [c EXCEPT !.density = atof(e.arg)]
               IN  IF DensityRejected(c2.density)
                   THEN [cfg |-> c2, returns |-> TRUE, status |-> 1,
                         msg |-> {"Density must be > 0"}]
                   ELSE go(c2)
          [] opt = "L" ->
               LET r == sscanf_light(e.arg, c.light_x, c.light_y)
                   c2 == [c EXCEPT !.light_x = r.light_x, !.light_y = r.light_y]
               IN  IF r.n # 2
                   THEN [cfg |-> c2, returns |-> TRUE, status |-> 1,
                         msg |-> {"Invalid light vector. Use x,y"}]
                   ELSE go(c2)
          [] opt = "z" -> go([c EXCEPT !.manual_zoom = atof(e.arg)])
          [] opt = "?" ->
               [cfg |-> c, returns |-> TRUE, status |-> 0, msg |-> {"Usage"}]
          [] OTHER -> go(c)

\* lines 333-353: getopt hands over the next option
ParseOption ==
    /\ pc = "getopt"
    /\ optind <= Len(argv.opts)
    /\ \E r \in {ParseCase(argv.opts[optind], cfg)} :
          /\ cfg' = r.cfg
          /\ pc' = (IF r.returns THEN "exited" ELSE "getopt")
          /\ status' = r.status
          /\ err' = err \cup r.msg
    /\ optind' = optind + 1
    /\ UNCHANGED <<argv, running, terminal_resized, sw, sh, zbuffer, bbuffer,
                   heap, zmem, bmem, zoom, rotA, rotB,
                   show_time_date, text, text_len, char_idx, seg_i,
                   seg_data, combined_args, charSigned, out>>
    /\ UNCHANGED obsVars

\* lines 355-376, when getopt has returned -1: with no word the text is the
\* time; otherwise the words are joined in a block from malloc, and main
\* returns 1 when malloc fails
TextHandling ==
    /\ pc = "getopt"
    /\ optind > Len(argv.opts)
    /\ show_time_date' = (argv.words = <<>>)
    /\ IF argv.words = <<>>
       THEN /\ pc' = "setup"
            /\ UNCHANGED <<combined_args, heap, text, status, err>>
       ELSE \E m \in Realloc(heap, NULL, total_len(argv.words)) :
               IF m.ptr = NULL
               THEN /\ pc' = "exited"
                    /\ status' = 1
                    /\ err' = err \cup {"Memory allocation failed"}
                    /\ UNCHANGED <<combined_args, heap, text>>
               ELSE /\ pc' = "setup"
                    /\ combined_args' = m.ptr
                    /\ heap' = m.heap
                    /\ text' = JoinWords(argv.words)
                    /\ UNCHANGED <<status, err>>
    /\ UNCHANGED <<argv, optind, cfg, running, terminal_resized, sw, sh,
                   zbuffer, bbuffer, zmem, bmem, zoom, rotA, rotB,
                   text_len, char_idx, seg_i, seg_data, charSigned, out>>
    /\ UNCHANGED obsVars

\* lines 377-428: the geometry, the empty buffers, the signal handlers, and
\* printf("\x1b[?25l\x1b[2J"), which hides the cursor and clears the screen
Setup ==
    /\ pc = "setup"
    /\ out' = [out EXCEPT !.cursor_hidden = TRUE, !.cleared = TRUE]
    /\ pc' = "loop_test"
    /\ UNCHANGED <<running, terminal_resized, sw, sh, zbuffer, bbuffer,
                   heap, zmem, bmem, zoom, rotA, rotB,
                   cfg, show_time_date, text, text_len, char_idx, seg_i,
                   seg_data, combined_args, charSigned>>
    /\ UNCHANGED startVars
    /\ UNCHANGED obsVars

NextStart ==
    \/ ParseOption
    \/ TextHandling
    \/ Setup

SpecStart == InitStart /\ [][NextStart]_vars

(***************************************************************************)
(* Properties                                                              *)
(***************************************************************************)
\* C1: once a realloc of the resize handling has failed, the run ends having
\* shown the cursor, with no block freed twice and no block left allocated.
C1_FailureReleasesOnce ==
    allocFailed =>
        /\ pc = "done"
        /\ out.cursor_shown
        /\ ~doubleFree
        /\ Live(heap) = {}

\* C2: wherever a frame clears, draws into or flushes the buffers, both are
\* allocated, hold exactly sw * sh cells with sw the columns and sh the rows
\* less one of the size last queried, and are the only blocks main holds
\* besides the joined text: no earlier buffer is left allocated.
C2_BufferSizes ==
    pc \in {"clear", "chars", "segs", "flush"} =>
        /\ sw = queried.cols
        /\ sh = queried.rows - 1
        /\ zbuffer # NULL /\ bbuffer # NULL /\ zbuffer # bbuffer
        /\ heap[zbuffer] = sw * sh * SizeofFloat
        /\ heap[bbuffer] = sw * sh
        /\ DOMAIN zmem = 0..(sw * sh - 1)
        /\ DOMAIN bmem = 0..(sw * sh - 1)
        /\ Live(heap) = {zbuffer, bbuffer} \cup ({combined_args} \ {NULL})

\* a frame about to be flushed after a resize in a later frame moved the
\* depth buffer behind the character buffer
C2_Witness ==
    /\ pc = "flush"
    /\ sw * sh > 0
    /\ zbuffer > bbuffer

\* C3: while the loop is running, a SIGWINCH delivered after the last size
\* query leaves terminal_resized set, so that the size is queried again.
C3_NoSignalLost ==
    (sigPending /\ running # 0 /\ ~Stopped) => terminal_resized # 0

\* C4: after handle_sigint has run, the frame in progress is not left
\* unflushed, the process does not abort, and it ends having shown the
\* cursor and released the buffers and the joined text, each once.
C4_CooperativeCancel ==
    interrupted =>
        /\ ~abandoned
        /\ pc # "crashed"
        /\ pc = "done" => (out.cursor_shown /\ ~doubleFree /\ Live(heap) = {})

\* C5: in a frame, every cell that calls have put points on holds the inverse
\* depth and the character of the point of greatest inverse depth among
\* them, in whatever order the calls were made.
C5_NearestWins ==
    pc = "chars" =>
        \A d \in drawn : zmem[d.idx] = d.ooz /\ bmem[d.idx] = d.ch

\* a call has overwritten a cell that held a farther point
C5_Witness ==
    /\ call.made
    /\ call.writes # {}
    /\ RLt(Zero, call.stored)

\* C6: a project_and_draw call whose final_z is <= 0 leaves both buffers as
\* they were.
C6_BehindCameraNoWrite ==
    [][(call'.made /\ RLe(call'.final_z, Zero))
         => (zmem' = zmem /\ bmem' = bmem)]_vars

\* a call on a point behind the camera, made on buffers that hold a point
C6_Witness ==
    /\ call.made
    /\ RLe(call.final_z, Zero)
    /\ drawn # {}

\* C7: a project_and_draw call changes no cell but the one it writes, writes
\* at most one index, xp + sw * yp with 0 <= xp < sw and 0 <= yp < sh, and
\* reads and writes no index outside 0 .. sw * sh - 1.
C7_AtMostOneCell ==
    [][call'.made =>
         /\ DOMAIN zmem' = DOMAIN zmem
         /\ DOMAIN bmem' = DOMAIN bmem
         /\ Cardinality(call'.writes) <= 1
         /\ \A k \in DOMAIN zmem :
               (zmem'[k] # zmem[k] \/ bmem'[k] # bmem[k]) => k \in call'.writes
         /\ (call'.reads \cup call'.writes) \subseteq 0..(sw * sh - 1)
         /\ \A k \in call'.writes :
               /\ call'.cell # <<>>
               /\ k = call'.cell[1] + sw * call'.cell[2]
               /\ 0 <= call'.cell[1] /\ call'.cell[1] < sw
               /\ 0 <= call'.cell[2] /\ call'.cell[2] < sh]_vars

\* a call that wrote a cell of a screen of two cells or more
C7_Witness ==
    /\ call.made
    /\ call.writes # {}
    /\ sw * sh >= 2

\* C8: every index project_and_draw reads the palette with lies in
\* 0 .. palette_len - 1.
C8_PaletteIndexInRange ==
    \A i \in call.palette_reads : 0 <= i /\ i <= Len(cfg.palette) - 1

\* C9: the font table is indexed within 0 .. 95; a byte outside 32 .. 127 gets
\* the mask 0 and no rasterizer call, a byte inside gets the table's entry at
\* the byte less 32.
C9_FontLookup ==
    pc = "segs" =>
        LET b == text[char_idx + 1]
        IN  /\ 0 <= font_idx /\ font_idx <= 95
            /\ IF b < 32 \/ b >= 128
               THEN seg_data = 0 /\ charCalls = 0 /\ rasterCalls = 0
               ELSE seg_data = FourteenSegmentASCII[(b - 32) + 1]

\* the segment loop of a byte whose code is below 0 where char is signed
C9_Witness ==
    /\ pc = "segs"
    /\ text[char_idx + 1] >= 128
    /\ charSigned

\* C10: after the clear and before any segment is rasterized, each of the
\* sw * sh cells holds a space and the depth 0.
C10_Cleared ==
    (pc \in {"chars", "segs"} /\ rasterCalls = 0) =>
        \A k \in 0..(sw * sh - 1) :
            /\ k \in DOMAIN bmem /\ k \in DOMAIN zmem
            /\ bmem[k] = SPACE
            /\ zmem[k] = Zero

\* the clear of a frame that follows, with no resize between, a frame that
\* was flushed with a character drawn in it
C10_Witness ==
    /\ pc = "chars"
    /\ rasterCalls = 0
    /\ \E y \in DOMAIN out.frame : \E x \in DOMAIN out.frame[y] :
          out.frame[y][x] # SPACE


\* C11: a frame whose text has length zero makes no call of the segment
\* rasterizer, and its flush writes sh rows of sw spaces, whatever the screen
\* size and the rotation
C11_EmptyTextBlank ==
    [][(pc = "flush" /\ pc' = "loop_test" /\ text_len = 0)
        => /\ rasterCalls = 0
           /\ out'.frame = [y \in 1..sh |-> [x \in 1..sw |-> SPACE]]]_vars

\* an empty text flushed on a screen with cells, in a frame of a text that
\* turns and that was half a turn round
C11_Witness ==
    /\ pc = "loop_test"
    /\ text_len = 0
    /\ rasterCalls = 0
    /\ sw > 0 /\ sh > 0
    /\ out.frame = [y \in 1..sh |-> [x \in 1..sw |-> SPACE]]
    /\ cfg.speedA = Turn180
    /\ rotA = Turn0


InvalidOption(e) ==
    \/ e.opt = "d" /\ e.arg \in BadDensityArgs
    \/ e.opt = "L" /\ e.arg \in BadLightArgs

\* main has returned a failure with its message, and has hidden no cursor,
\* cleared no screen, written no frame and allocated nothing
RejectedAtStartup ==
    /\ pc = "exited"
    /\ status # 0
    /\ err \in {{"Density must be > 0"}, {"Invalid light vector. Use x,y"}}
    /\ ~out.cursor_hidden /\ ~out.cleared /\ out.frame = <<>>
    /\ zbuffer = NULL /\ bbuffer = NULL /\ combined_args = NULL
    /\ \A a \in Addrs : heap[a] = Free

\* C13: when the command line supplies a density that is not above 0 or a
\* light vector that does not parse as x,y, the program, once startup is
\* over, has reported the error and exited with a status other than 0, with
\* no frame, no buffer, no cursor-hide and no screen-clear
C13_InvalidConfigRejected ==
    (/\ pc \in {"exited", "loop_test"}
     /\ \E i \in 1..Len(argv.opts) : InvalidOption(argv.opts[i]))
    => RejectedAtStartup

\* What the parsing does guarantee: the same holds of the first such option
\* once the parsing has gone past it, when every option before it is one
\* getopt knows
C13_FirstInvalidRejected ==
    \A i \in 1..Len(argv.opts) :
        (/\ InvalidOption(argv.opts[i])
         /\ \A j \in 1..(i - 1) : /\ ~InvalidOption(argv.opts[j])
                                  /\ argv.opts[j].opt \in OptString
         /\ optind > i)
        => /\ RejectedAtStartup
           /\ status = 1
           /\ err = (IF argv.opts[i].opt = "d"
                     THEN {"Density must be > 0"}
                     ELSE {"Invalid light vector. Use x,y"})

\* -L 1,1 -d 0 with a word of text: main has returned 1 at the density
C13_RejectedReached ==
    /\ Len(argv.opts) = 2
    /\ argv.opts[1] = [opt |-> "L", arg |-> <<"1", ",", "1">>]
    /\ argv.opts[2] = [opt |-> "d", arg |-> <<"0">>]
    /\ argv.words # <<>>
    /\ optind = 3
    /\ RejectedAtStartup

====
